---- MODULE Spec2Model ----
(***************************************************************************)
(* Methadone monitoring calculator (src/methadone_monitoring.py).          *)
(*                                                                         *)
(* Number representation.  The program computes in binary64 floating       *)
(* point.  Here a concentration is an integer count of 1/Scale ng/mL, the  *)
(* decay factor and the accumulation factor are integer counts of 1/ES,    *)
(* and a probability is an integer count of 1/Pct.  Every product and      *)
(* quotient is computed with explicit flooring, in 32-bit-safe pieces.     *)
(* Two floating point events are kept: np.exp underflows to 0.0 below      *)
(* -745.13, and a numpy division by zero yields inf/nan where a Python     *)
(* division raises ZeroDivisionError.  Rounding in the last binary64 digit *)
(* is not represented.                                                     *)
(***************************************************************************)
EXTENDS Integers, Sequences, FiniteSets, TLC

\* ------------------------------------------------------------ arithmetic

\* One concentration unit is 1/Scale ng/mL.
Scale == 10^3
\* One unit of a decay or accumulation factor is 1/ES; Limb * Limb = ES.
Limb == 10^4
ES == Limb * Limb
\* One probability unit is 1/Pct.
Pct == 10^2

\* Number of series terms after which the expansion of exp is cut.
MaxTerms == 40

\* How many times beyond the input widget's range a direct call is tried at.
LongTimeCount == 2

Abs(x) == IF x < 0 THEN 0 - x ELSE x

Sgn(x) == IF x < 0 THEN 0 - 1 ELSE IF x = 0 THEN 0 ELSE 1

\* floor(a * n / d) for a >= 0, n >= 0, d > 0, without forming a * n.
MulDiv(a, n, d) == (a \div d) * n + ((a % d) * n) \div d

\* floor(a * b / ES) for a, b >= 0, by limbs of Limb.
MulFix(a, b) ==
    LET a1 == a \div Limb
        a0 == a % Limb
        b1 == b \div Limb
        b0 == b % Limb
    IN  a1 * b1 + (a1 * b0 + a0 * b1 + (a0 * b0) \div Limb) \div Limb

\* The first k decimal digits of r / b (0 <= r < b), as an integer.
RECURSIVE FracDigits(_, _, _)
FracDigits(r, b, k) ==
    IF k = 0 THEN 0
    ELSE ((r * 10) \div b) * 10^(k - 1) + FracDigits((r * 10) % b, b, k - 1)

\* floor(a * ES / b) for a >= 0, b > 0, by long division.
DivFix(a, b) == (a \div b) * ES + FracDigits(a % b, b, 8)

\* ------------------------------------------------------------ np.exp

\* The code's constant 0.693, in thousandths (lines 10, 14, 15, 18).
Ln2Milli == 693

\* np.exp(x) is 0.0 for x below about -745.13 (binary64 underflow); in
\* thousandths.
ExpUnderflowMilli == 745134

\* Sum of the series terms from the n-th on: term is |x|^n / n! in units of
\* 1/ES, x = Ln2Milli * t / (1000 * h); sign alternates when x is negative.
RECURSIVE ExpSeries(_, _, _, _, _)
ExpSeries(term, n, t, h, negative) ==
    IF term = 0 \/ n > MaxTerms THEN 0
    ELSE (IF negative /\ n % 2 = 1 THEN 0 - term ELSE term)
         + ExpSeries(MulDiv(MulDiv(term, t, h * (n + 1)), Ln2Milli, 1000),
                     n + 1, t, h, negative)

\* The dosing interval in accumulation_factor, 24 h.
DosingInterval == 24

\* Variant: the decay computed from the dosing interval of line 14 instead
\* of time_since_last_dose.
NpExpOfInterval(t, half_life) ==
    ExpSeries(ES, 0, DosingInterval, Abs(half_life), half_life > 0)

\* np.exp(-0.693 * t / half_life) in units of 1/ES, for t >= 0 and
\* half_life # 0.  A negative half_life makes the argument positive.  For an
\* argument between about -18.4 and -745.13 the value is positive and below
\* 1/ES; the inputs drawn below keep out of that interval.
NpExp(t, half_life) ==
    IF half_life > 0 /\ Ln2Milli * t > ExpUnderflowMilli * half_life
    THEN 0
    ELSE ExpSeries(ES, 0, t, Abs(half_life), half_life > 0)


\* ------------------------------------------------------------ functions

\* volume_distribution = 4 L/kg.
VolumeDistribution == 4

\* Variant: the factor without its reciprocal.
AccumulationFactorNoInverse(half_life) == ES - NpExp(DosingInterval, half_life)

\* accumulation_factor = 1 / (1 - np.exp(-0.693 * 24 / half_life)), in units
\* of 1/ES, for half_life # 0; negative when half_life is.
AccumulationFactor(half_life) ==
    LET den == ES - NpExp(DosingInterval, half_life)
    IN  Sgn(den) * DivFix(ES, Abs(den))

\* What a call returns or raises: exc is "none" or the exception's name,
\* cls the class of the returned float, v its value in units of 1/Scale
\* ng/mL when finite.
Returned(v) == [exc |-> "none", cls |-> "finite", v |-> v]

Special(cls) == [exc |-> "none", cls |-> cls, v |-> 0]

Raised(name) == [exc |-> name, cls |-> "none", v |-> 0]

\* max(concentration * 1000, 0): Python's max keeps its first argument
\* unless the second is greater, so nan stays nan and inf stays inf.
MaxWithZero(sign, cls, magnitude) ==
    CASE cls = "nan" -> Special("nan")
      [] cls = "inf" -> IF sign > 0 THEN Special("inf") ELSE Returned(0)
      [] OTHER -> IF sign > 0 THEN Returned(magnitude) ELSE Returned(0)

\* (factor * dose / (4 * weight)) * 1000 in units of 1/Scale ng/mL, for a
\* factor >= 0 in units of 1/ES: 10^6 * dose * factor / (ES * 4 * weight).
Scaled(dose, weight, factor) ==
    MulDiv(factor, dose, (ES \div (1000 * Scale)) * VolumeDistribution * weight)

\* calculate_methadone_concentration(dose, weight, half_life,
\* time_since_last_dose, steady_state), for time_since_last_dose >= 0.
calculate_methadone_concentration(dose, weight, half_life, t, steady_state) ==
    IF half_life = 0 THEN Raised("ZeroDivisionError")
    ELSE
      LET decay == NpExp(t, half_life)
          af == IF steady_state THEN AccumulationFactor(half_life) ELSE ES
          sign == Sgn(dose) * Sgn(af) * Sgn(weight)
      IN  IF weight = 0
          THEN IF ~steady_state THEN Raised("ZeroDivisionError")
               ELSE IF dose * Sgn(af) = 0 \/ decay = 0
                    THEN MaxWithZero(0, "nan", 0)
                    ELSE MaxWithZero(Sgn(dose) * Sgn(af), "inf", 0)
          ELSE MaxWithZero(sign, "finite",
                           Scaled(Abs(dose), Abs(weight), MulFix(Abs(af), decay)))

\* calculate_eddp_concentration: methadone_expected * 0.3.
calculate_eddp_concentration(methadone_expected) == (methadone_expected * 3) \div 10

\* error_percentage's default.
DefaultErrorPercentage == 20

\* Variant: the two ends exchanged.
confidence_interval_swapped(value, error_percentage) ==
    <<100 * value + value * error_percentage, 100 * value - value * error_percentage>>

\* confidence_interval(value, error_percentage): (value - margin, value +
\* margin) with margin = value * (error_percentage / 100).  The pair is in
\* units of 1/(100 * Scale) ng/mL, so that the margin is exact.
confidence_interval(value, error_percentage) ==
    <<100 * value - value * error_percentage, 100 * value + value * error_percentage>>

\* The labels of the classification.
VerySlow == "Metabolisation tres lente"
Slow == "Metaboliseur lent"
Normal == "Metaboliseur normal"
Fast == "Metaboliseur rapide"
Underdose == "Sous-dosage (risque de manque)"
Overdose == "Risque de surdosage (toxicite)"
Therapeutic == "Dose dans la zone therapeutique"

\* Variant: the whole probability on the slow label.
EddpZeroDistributionSlow ==
    (VerySlow :> 0) @@ (Slow :> Pct) @@ (Normal :> 0) @@ (Fast :> 0)

\* The distribution returned when eddp_measured == 0.
EddpZeroDistribution ==
    (VerySlow :> Pct) @@ (Slow :> 0) @@ (Normal :> 0) @@ (Fast :> 0)

\* Variants: one probability of a bin mistyped.
NormalBinDistributionOff == (Slow :> 20) @@ (Normal :> 80) @@ (Fast :> 10)

FastBinDistributionOff == (Slow :> 5) @@ (Normal :> 20) @@ (Fast :> 60)

\* The three distributions of the ratio bins.
SlowBinDistribution == (Slow :> 80) @@ (Normal :> 15) @@ (Fast :> 5)

NormalBinDistribution == (Slow :> 20) @@ (Normal :> 70) @@ (Fast :> 10)

FastBinDistribution == (Slow :> 5) @@ (Normal :> 20) @@ (Fast :> 75)

\* Variant: ratio >= 2.5.
RatioAboveSlowInclusive(methadone_measured, eddp_measured) ==
    2 * methadone_measured >= 5 * eddp_measured

\* ratio > 2.5 and 1.0 <= ratio <= 2.5, with ratio = methadone_measured /
\* eddp_measured and eddp_measured > 0.
RatioAboveSlow(methadone_measured, eddp_measured) ==
    2 * methadone_measured > 5 * eddp_measured

RatioInNormal(methadone_measured, eddp_measured) ==
    /\ methadone_measured >= eddp_measured
    /\ 2 * methadone_measured <= 5 * eddp_measured

\* evaluate_metabolism_probabilities(methadone_measured, eddp_measured), for
\* eddp_measured >= 0.
evaluate_metabolism_probabilities(methadone_measured, eddp_measured) ==
    IF eddp_measured = 0 THEN EddpZeroDistribution
    ELSE IF RatioAboveSlow(methadone_measured, eddp_measured) THEN SlowBinDistribution
    ELSE IF RatioInNormal(methadone_measured, eddp_measured) THEN NormalBinDistribution
    ELSE FastBinDistribution

\* Variants: the comparisons made inclusive; fixed thresholds of 100 and 600
\* ng/mL in place of the band around the expected value.
assess_risk_inclusive(methadone_measured, expected_methadone) ==
    LET band == confidence_interval(expected_methadone, DefaultErrorPercentage)
    IN  IF 100 * methadone_measured <= band[1] THEN Underdose
        ELSE IF 100 * methadone_measured >= band[2] THEN Overdose
        ELSE Therapeutic

assess_risk_fixed(methadone_measured, expected_methadone) ==
    IF methadone_measured < 100 * Scale THEN Underdose
    ELSE IF methadone_measured > 600 * Scale THEN Overdose
    ELSE Therapeutic

\* assess_risk(methadone_measured, expected_methadone), both in units of
\* 1/Scale ng/mL.
assess_risk(methadone_measured, expected_methadone) ==
    LET band == confidence_interval(expected_methadone, DefaultErrorPercentage)
    IN  IF 100 * methadone_measured < band[1] THEN Underdose
        ELSE IF 100 * methadone_measured > band[2] THEN Overdose
        ELSE Therapeutic

\* n / d rounded to the nearest integer, ties to even (n >= 0, d > 0): what
\* the format specs .2f and .1f do to a value.
RoundHalfEven(n, d) ==
    LET q == n \div d
        r == n % d
    IN  IF 2 * r > d \/ (2 * r = d /\ q % 2 = 1) THEN q + 1 ELSE q

\* f"{x:.2f}" of a bound of a confidence interval, in hundredths of ng/mL.
Format2f(bound) == RoundHalfEven(bound, Scale)

\* f"{value*100:.1f}%" of a probability, in tenths of a percent.
Format1fPercent(value) == RoundHalfEven(value * 100 * 10, Pct)

\* ------------------------------------------------------------ inputs

\* The widgets' min_value, max_value and value (lines 94-99).
DoseMin == 1
DoseMax == 300
DoseDefault == 60
WeightMin == 30
WeightMax == 150
WeightDefault == 70
HalfLifeMin == 10
HalfLifeMax == 60
HalfLifeDefault == 24
TimeMin == 1
TimeMax == 48
TimeDefault == 12
MeasuredMin == 0
MeasuredMax == 2000
MethadoneDefault == 350
EddpDefault == 120

\* The values the widgets are set to: the ends and the default of each range
\* and values around the thresholds of the classification.
DoseInputs == {DoseMin, DoseDefault, DoseMax}
WeightInputs == {WeightMin, WeightDefault, WeightMax}
HalfLifeInputs == {HalfLifeMin, 18, HalfLifeDefault, 40, HalfLifeMax}
TimeInputs == {TimeMin, TimeDefault, 39, TimeMax}
MethadoneInputs == {MeasuredMin, 95, 100, 200, MethadoneDefault, 614, MeasuredMax}
EddpInputs == {MeasuredMin, 50, 100, EddpDefault, MeasuredMax}

\* Direct calls of calculate_methadone_concentration: half-lives across the
\* slider's range, every whole hour of the time widget's range (and hour 0,
\* where the plot starts), times far beyond that range, and calls with a
\* non-positive argument.
CallHalfLives ==
    {h \in HalfLifeMin .. HalfLifeMax : h % 5 = 0} \cup HalfLifeInputs
LongTimes == {70000 + 10000 * k : k \in 0 .. (LongTimeCount - 1)}
ShortTimes == 0 .. TimeMax
ValidConcentrationCalls ==
    {<<d, w, h, t, s>> : d \in DoseInputs, w \in WeightInputs,
                         h \in CallHalfLives,
                         t \in ShortTimes \cup LongTimes, s \in BOOLEAN}
InvalidConcentrationCalls ==
    {c \in {<<d, w, h, t, s>> : d \in {0 - DoseDefault, 0, DoseDefault},
                                w \in {0 - WeightDefault, 0, WeightDefault},
                                h \in {0 - HalfLifeDefault, 0, HalfLifeDefault},
                                t \in {0, TimeDefault, TimeMax}, s \in BOOLEAN} :
        c[1] <= 0 \/ c[2] <= 0 \/ c[3] <= 0}
ConcentrationCalls == ValidConcentrationCalls \cup InvalidConcentrationCalls

\* Direct calls of the classifier's functions; concentrations in units of
\* 1/Scale ng/mL.
ValueInputs ==
    {k * Scale : k \in {0 - 300, 0 - 10, 0 - 1, 0, 1, 3, 50, 100, 300, 2000}}
        \cup {0 - 1, 1, 303112, 94664}
RiskMeasuredInputs ==
    {k * Scale : k \in {0, 39, 40, 41, 50, 60, 61, 80, 100, 120, 121, 240, 350, 360, 361, 2000}}
        \cup {0 - Scale, 79999, 80001, 119999, 120001}
RiskExpectedInputs == {v \in ValueInputs : v >= 0}
RatioMethadoneInputs == {0, 1, 50, 99, 100, 101, 200, 249, 250, 251, 350, 2000}
RatioEddpInputs == {0, 1, 40, 100, 120, 2000}
ClassifierCalls ==
    {<<"confidence_interval", <<v>>>> : v \in ValueInputs}
        \cup {<<"calculate_eddp_concentration", <<v>>>> : v \in RiskExpectedInputs}
        \cup {<<"evaluate_metabolism_probabilities", <<m, e>>>> :
                  m \in RatioMethadoneInputs, e \in RatioEddpInputs}
        \cup {<<"assess_risk", <<m, x>>>> :
                  m \in RiskMeasuredInputs, x \in RiskExpectedInputs}

\* ------------------------------------------------------------ state

VARIABLES
    dose, weight, half_life, time_since_last_dose,  \* the widgets' values
    methadone_measured, eddp_measured,
    out,    \* what the page shows under the button
    pc,     \* "page", or "call"/"done" around a direct call of a function
    fn,     \* the function called directly
    args,   \* its arguments
    ret     \* what it returned or raised

widgets == <<dose, weight, half_life, time_since_last_dose,
             methadone_measured, eddp_measured>>
direct == <<pc, fn, args, ret>>
vars == <<dose, weight, half_life, time_since_last_dose,
          methadone_measured, eddp_measured, out, pc, fn, args, ret>>

\* The page before the button is pressed, and after any widget changes: the
\* script runs again and st.button returns False.
NoOutput == [shown |-> FALSE]

WidgetDefaults ==
    /\ dose = DoseDefault
    /\ weight = WeightDefault
    /\ half_life = HalfLifeDefault
    /\ time_since_last_dose = TimeDefault
    /\ methadone_measured = MethadoneDefault
    /\ eddp_measured = EddpDefault
    /\ out = NoOutput

\* ------------------------------------------------------------ the page

Init ==
    /\ WidgetDefaults
    /\ pc = "page"
    /\ fn = "none"
    /\ args = <<>>
    /\ ret = <<>>

SetDose ==
    /\ pc = "page"
    /\ \E v \in DoseInputs : dose' = v
    /\ out' = NoOutput
    /\ UNCHANGED <<weight, half_life, time_since_last_dose, methadone_measured,
                   eddp_measured, direct>>

SetWeight ==
    /\ pc = "page"
    /\ \E v \in WeightInputs : weight' = v
    /\ out' = NoOutput
    /\ UNCHANGED <<dose, half_life, time_since_last_dose, methadone_measured,
                   eddp_measured, direct>>

SetHalfLife ==
    /\ pc = "page"
    /\ \E v \in HalfLifeInputs : half_life' = v
    /\ out' = NoOutput
    /\ UNCHANGED <<dose, weight, time_since_last_dose, methadone_measured,
                   eddp_measured, direct>>

SetTime ==
    /\ pc = "page"
    /\ \E v \in TimeInputs : time_since_last_dose' = v
    /\ out' = NoOutput
    /\ UNCHANGED <<dose, weight, half_life, methadone_measured, eddp_measured,
                   direct>>

SetMethadoneMeasured ==
    /\ pc = "page"
    /\ \E v \in MethadoneInputs : methadone_measured' = v
    /\ out' = NoOutput
    /\ UNCHANGED <<dose, weight, half_life, time_since_last_dose, eddp_measured,
                   direct>>

SetEddpMeasured ==
    /\ pc = "page"
    /\ \E v \in EddpInputs : eddp_measured' = v
    /\ out' = NoOutput
    /\ UNCHANGED <<dose, weight, half_life, time_since_last_dose,
                   methadone_measured, direct>>

\* The body of `if st.button("Evaluer")`: everything the page then shows.
\* The widgets give whole numbers of mg, kg, h and ng/mL.  Of
\* plot_methadone_curves the two scattered points are kept; its curves are
\* calculate_methadone_concentration sampled over 0 .. 48 h and change no
\* state.
Evaluation(d, w, h, t, m, e) ==
    LET methadone_expected == calculate_methadone_concentration(d, w, h, t, TRUE).v
        eddp_expected == calculate_eddp_concentration(methadone_expected)
        methadone_range == confidence_interval(methadone_expected, DefaultErrorPercentage)
        eddp_range == confidence_interval(eddp_expected, DefaultErrorPercentage)
        metabolism_probabilities == evaluate_metabolism_probabilities(m, e)
        risk_evaluation == assess_risk(m * Scale, methadone_expected)
    IN  [shown |-> TRUE,
         methadone_expected |-> methadone_expected,
         methadone_range |-> methadone_range,
         eddp_range |-> eddp_range,
         metabolism_probabilities |-> metabolism_probabilities,
         risk_evaluation |-> risk_evaluation,
         methadone_text |-> <<Format2f(methadone_range[1]), Format2f(methadone_range[2])>>,
         eddp_text |-> <<Format2f(eddp_range[1]), Format2f(eddp_range[2])>>,
         probability_text |->
             [k \in DOMAIN metabolism_probabilities |->
                  Format1fPercent(metabolism_probabilities[k])],
         plot_measured |-> <<t, m * Scale>>,
         plot_expected |->
             <<t, calculate_methadone_concentration(d, w, h, t, TRUE).v>>]

Evaluer ==
    /\ pc = "page"
    /\ out' = Evaluation(dose, weight, half_life, time_since_last_dose,
                         methadone_measured, eddp_measured)
    /\ UNCHANGED <<widgets, direct>>

Next ==
    \/ SetDose
    \/ SetWeight
    \/ SetHalfLife
    \/ SetTime
    \/ SetMethadoneMeasured
    \/ SetEddpMeasured
    \/ Evaluer

Spec == Init /\ [][Next]_vars

\* ------------------------------------------------------------ direct calls

InitConcentration ==
    /\ WidgetDefaults
    /\ pc = "call"
    /\ fn = "calculate_methadone_concentration"
    /\ args \in ConcentrationCalls
    /\ ret = <<>>

CallConcentration ==
    /\ pc = "call"
    /\ fn = "calculate_methadone_concentration"
    /\ ret' = calculate_methadone_concentration(args[1], args[2], args[3],
                                                args[4], args[5])
    /\ pc' = "done"
    /\ UNCHANGED <<widgets, out, fn, args>>

SpecConcentration == InitConcentration /\ [][CallConcentration]_vars

InitClassifier ==
    /\ WidgetDefaults
    /\ pc = "call"
    /\ \E c \in ClassifierCalls : fn = c[1] /\ args = c[2]
    /\ ret = <<>>

CallConfidenceInterval ==
    /\ pc = "call"
    /\ fn = "confidence_interval"
    /\ ret' = confidence_interval(args[1], DefaultErrorPercentage)
    /\ pc' = "done"
    /\ UNCHANGED <<widgets, out, fn, args>>

CallEddpConcentration ==
    /\ pc = "call"
    /\ fn = "calculate_eddp_concentration"
    /\ ret' = calculate_eddp_concentration(args[1])
    /\ pc' = "done"
    /\ UNCHANGED <<widgets, out, fn, args>>

CallMetabolismProbabilities ==
    /\ pc = "call"
    /\ fn = "evaluate_metabolism_probabilities"
    /\ ret' = evaluate_metabolism_probabilities(args[1], args[2])
    /\ pc' = "done"
    /\ UNCHANGED <<widgets, out, fn, args>>

CallAssessRisk ==
    /\ pc = "call"
    /\ fn = "assess_risk"
    /\ ret' = assess_risk(args[1], args[2])
    /\ pc' = "done"
    /\ UNCHANGED <<widgets, out, fn, args>>

NextClassifier ==
    \/ CallConfidenceInterval
    \/ CallEddpConcentration
    \/ CallMetabolismProbabilities
    \/ CallAssessRisk

SpecClassifier == InitClassifier /\ [][NextClassifier]_vars

\* ------------------------------------------------------------ claims

ConcentrationDone == pc = "done" /\ fn = "calculate_methadone_concentration"

PositiveArguments == args[1] > 0 /\ args[2] > 0 /\ args[3] > 0

\* The value returned with the time or the mode of the finished call changed.
AtTime(t) ==
    calculate_methadone_concentration(args[1], args[2], args[3], t, args[5]).v

InMode(steady_state) ==
    calculate_methadone_concentration(args[1], args[2], args[3], args[4],
                                      steady_state).v

RECURSIVE SumOf(_, _)
SumOf(f, keys) ==
    IF keys = {} THEN 0
    ELSE LET k == CHOOSE j \in keys : TRUE
         IN  f[k] + SumOf(f, keys \ {k})

StrictlyMostProbable(f, k) == \A j \in DOMAIN f \ {k} : f[j] < f[k]

\* C1: assess_risk(measured, expected), expected >= 0, returns underdose
\* exactly when measured < 0.8 * expected, overdose exactly when measured >
\* 1.2 * expected and therapeutic otherwise, both ends of the band included.
C1_AssessRiskThreeWay ==
    (pc = "done" /\ fn = "assess_risk") =>
        LET m == args[1]
            x == args[2]
        IN  /\ ret \in {Underdose, Therapeutic, Overdose}
            /\ (ret = Underdose) <=> (10 * m < 8 * x)
            /\ (ret = Overdose) <=> (10 * m > 12 * x)
            /\ (ret = Therapeutic) <=> (8 * x <= 10 * m /\ 10 * m <= 12 * x)

\* A measured value equal to the lower end of a positive band was assessed.
C1_Witness ==
    /\ pc = "done"
    /\ fn = "assess_risk"
    /\ args[2] > 0
    /\ 10 * args[1] = 8 * args[2]
    /\ ret = Therapeutic

\* C2: every probability returned by evaluate_metabolism_probabilities is
\* >= 0 and the probabilities sum to 1, eddp_measured = 0 included.
C2_ProbabilitiesSumToOne ==
    (pc = "done" /\ fn = "evaluate_metabolism_probabilities") =>
        /\ \A k \in DOMAIN ret : ret[k] >= 0
        /\ SumOf(ret, DOMAIN ret) = Pct

\* A distribution was returned for eddp_measured = 0.
C2_Witness ==
    /\ pc = "done"
    /\ fn = "evaluate_metabolism_probabilities"
    /\ args[2] = 0
    /\ SumOf(ret, DOMAIN ret) = Pct

\* C3 (as amended): with eddp_measured = 0 the call returns, for every
\* methadone_measured, the distribution in which the separate label "very
\* slow" has probability 1 and slow, normal and fast have probability 0.
C3_VerySlowCollapse ==
    (pc = "done" /\ fn = "evaluate_metabolism_probabilities" /\ args[2] = 0) =>
        /\ DOMAIN ret = {VerySlow, Slow, Normal, Fast}
        /\ ret[VerySlow] = Pct
        /\ ret[Slow] = 0
        /\ ret[Normal] = 0
        /\ ret[Fast] = 0

\* C3 as stated: with eddp_measured = 0 the slow label has probability 1 and
\* normal and fast have probability 0.
C3_SlowCollapse ==
    (pc = "done" /\ fn = "evaluate_metabolism_probabilities" /\ args[2] = 0) =>
        /\ ret[Slow] = Pct
        /\ ret[Normal] = 0
        /\ ret[Fast] = 0

\* The default measured methadone was classified with eddp_measured = 0.
C3_Witness ==
    /\ pc = "done"
    /\ fn = "evaluate_metabolism_probabilities"
    /\ args = <<MethadoneDefault, 0>>
    /\ ret[VerySlow] = Pct

\* C4: a direct call with a non-positive dose, weight or half-life fails with
\* InvalidParameter and returns no concentration.
C4_InvalidParameter ==
    (ConcentrationDone /\ ~PositiveArguments) => ret.exc = "InvalidParameter"

\* C5 (as amended): confidence_interval(v, 20) returns (0.8 v, 1.2 v) for
\* every v; low <= v <= high when v >= 0, and high < v < low when v < 0.
C5_BandAroundValue ==
    (pc = "done" /\ fn = "confidence_interval") =>
        LET v == args[1]
        IN  /\ ret = <<80 * v, 120 * v>>
            /\ v >= 0 => (ret[1] <= 100 * v /\ 100 * v <= ret[2])
            /\ v < 0 => (ret[2] < 100 * v /\ 100 * v < ret[1])

\* C5 as stated: (0.8 v, 1.2 v) and low <= v <= high for every v.
C5_BandOrdered ==
    (pc = "done" /\ fn = "confidence_interval") =>
        LET v == args[1]
        IN  /\ ret = <<80 * v, 120 * v>>
            /\ ret[1] <= 100 * v
            /\ 100 * v <= ret[2]

\* The band of a positive value was computed, strictly around it.
C5_Witness ==
    /\ pc = "done"
    /\ fn = "confidence_interval"
    /\ args[1] > 0
    /\ ret[1] < 100 * args[1]
    /\ 100 * args[1] < ret[2]

\* C6: for positive dose, weight and half-life and time >= 0 the
\* accumulation factor is >= 1, and the steady-state estimate is >= the
\* single-dose estimate of the same dose, weight, time and half-life.
C6_SteadyStateAtLeastSingleDose ==
    (ConcentrationDone /\ PositiveArguments) =>
        /\ AccumulationFactor(args[3]) >= ES
        /\ ret.exc = "none" /\ ret.cls = "finite"
        /\ InMode(TRUE) >= InMode(FALSE)

\* A steady-state estimate above a positive single-dose estimate.
C6_Witness ==
    /\ ConcentrationDone
    /\ PositiveArguments
    /\ args[5]
    /\ InMode(FALSE) > 0
    /\ ret.v > InMode(FALSE)

\* C7 (as amended): for dose, weight and half-life in the widgets' ranges
\* and a fixed mode the estimate never increases with time, and it strictly
\* decreases from one whole hour to a later one within 0 .. 48 h.
C7_DecreasingWithinRange ==
    (ConcentrationDone /\ PositiveArguments) =>
        \A t2 \in ShortTimes \cup LongTimes :
            t2 > args[4] =>
                /\ AtTime(t2) <= ret.v
                /\ t2 \in ShortTimes => AtTime(t2) < ret.v

\* C7 as stated: the estimate at any later time is strictly less.
C7_StrictlyDecreasing ==
    (ConcentrationDone /\ PositiveArguments) =>
        \A t2 \in ShortTimes \cup LongTimes :
            t2 > args[4] => AtTime(t2) < ret.v

\* The estimate at the default time, above the positive one at 48 h.
C7_Witness ==
    /\ ConcentrationDone
    /\ PositiveArguments
    /\ args[4] = TimeDefault
    /\ AtTime(TimeMax) > 0
    /\ AtTime(TimeMax) < ret.v

\* Where a measured EDDP lies with respect to the shown expected-EDDP band.
BandSide(e) ==
    IF 100 * Scale * e < out.eddp_range[1] THEN "below"
    ELSE IF 100 * Scale * e > out.eddp_range[2] THEN "above"
    ELSE "inside"

\* Pairs of inputs with the ratio of the evaluated pair and the measured EDDP
\* on another side of the band.
SameRatioOtherSide ==
    {p \in MethadoneInputs \X EddpInputs :
        /\ eddp_measured > 0
        /\ p[2] > 0
        /\ p[1] * eddp_measured = methadone_measured * p[2]
        /\ BandSide(p[2]) # BandSide(eddp_measured)}

\* C8 (as amended): the distribution the page shows is the one of the ratio
\* bin (or of eddp_measured = 0) with no adjustment by the expected-EDDP
\* band, so inputs with the same ratio and the measured EDDP on different
\* sides of the band receive the same distribution.
C8_RatioBinOnly ==
    out.shown =>
        /\ out.metabolism_probabilities =
               IF eddp_measured = 0
               THEN (VerySlow :> 100) @@ (Slow :> 0) @@ (Normal :> 0) @@ (Fast :> 0)
               ELSE IF 2 * methadone_measured > 5 * eddp_measured
               THEN (Slow :> 80) @@ (Normal :> 15) @@ (Fast :> 5)
               ELSE IF methadone_measured >= eddp_measured
               THEN (Slow :> 20) @@ (Normal :> 70) @@ (Fast :> 10)
               ELSE (Slow :> 5) @@ (Normal :> 20) @@ (Fast :> 75)
        /\ \A p \in SameRatioOtherSide :
               evaluate_metabolism_probabilities(p[1], p[2])
                   = out.metabolism_probabilities

\* C8 as stated: inputs with the same ratio and the measured EDDP on
\* different sides of the band receive different distributions.
C8_BandAdjusted ==
    out.shown =>
        \A p \in SameRatioOtherSide :
            evaluate_metabolism_probabilities(p[1], p[2])
                # out.metabolism_probabilities

\* An evaluation with the measured EDDP inside the band, while an input of
\* the same ratio has it below the band.
C8_Witness ==
    /\ out.shown
    /\ BandSide(eddp_measured) = "inside"
    /\ \E p \in SameRatioOtherSide : BandSide(p[2]) = "below"

\* C9: for eddp_measured > 0 the ratio lies in exactly one bin and the bin's
\* label is strictly the most probable: ratio > 2.5 slow, 1.0 <= ratio <=
\* 2.5 normal, ratio < 1.0 fast.
C9_BinFixesLabel ==
    (pc = "done" /\ fn = "evaluate_metabolism_probabilities" /\ args[2] > 0) =>
        LET m == args[1]
            e == args[2]
        IN  /\ DOMAIN ret = {Slow, Normal, Fast}
            /\ 2 * m > 5 * e => StrictlyMostProbable(ret, Slow)
            /\ (m >= e /\ 2 * m <= 5 * e) => StrictlyMostProbable(ret, Normal)
            /\ m < e => StrictlyMostProbable(ret, Fast)

\* A ratio of exactly 2.5 was classified as normal.
C9_Witness ==
    /\ pc = "done"
    /\ fn = "evaluate_metabolism_probabilities"
    /\ args[2] > 0
    /\ 2 * args[1] = 5 * args[2]
    /\ StrictlyMostProbable(ret, Normal)

\* The verdict agrees with the band <<low, high>> for a measured value M, all
\* three in the same unit.
VerdictAgrees(low, M, high) ==
    /\ (out.risk_evaluation = Therapeutic) <=> (low <= M /\ M <= high)
    /\ (out.risk_evaluation = Underdose) <=> (M < low)
    /\ (out.risk_evaluation = Overdose) <=> (M > high)

\* C10 (as amended): in one evaluation the verdict agrees with the band
\* methadone_range as computed; the page shows the band's ends rounded to two
\* decimals.
C10_VerdictAgreesWithRange ==
    out.shown =>
        VerdictAgrees(out.methadone_range[1], 100 * Scale * methadone_measured,
                      out.methadone_range[2])

\* C10 as stated: the verdict agrees with the range as displayed.
C10_VerdictAgreesWithDisplay ==
    out.shown =>
        VerdictAgrees(out.methadone_text[1], 100 * methadone_measured,
                      out.methadone_text[2])

\* An overdose verdict for a measured value equal to the displayed upper end.
C10_Witness ==
    /\ out.shown
    /\ out.risk_evaluation = Overdose
    /\ 100 * methadone_measured = out.methadone_text[2]
    /\ 100 * Scale * methadone_measured > out.methadone_range[2]

====
